---------------------------- MODULE Spec2Model ----------------------------
(***************************************************************************)
(* OpenFamilySafe: the approval state machine (services/userService.ts)    *)
(* and the family aggregate manager (services/familyService.ts) over the   *)
(* Firestore profile and family stores.                                    *)
(*                                                                         *)
(* A document store is a function whose domain is the set of existing      *)
(* document ids.  runTransaction is serializable: a transaction's reads    *)
(* and writes take effect at one point or not at all, so each transaction  *)
(* is one action that either commits or aborts.  The functions of          *)
(* familyService.ts are plain sequences of awaited reads and writes; each  *)
(* await is one step, and other operations may run between two steps.      *)
(* Timestamps (createdAt, updatedAt, approvedAt) are left out of the       *)
(* documents.                                                              *)
(***************************************************************************)
EXTENDS Integers, Sequences, FiniteSets, TLC

VARIABLES users, families, call, last, gateway, policy,
          invites, client, query, auth

\* the state outside the stores, the gateway and the access policy: the
\* invite collection with its clock, the proxy client, the children query
\* and the auth context
clientVars == <<invites, client, query, auth>>

vars == <<users, families, call, last, gateway, policy, clientVars>>

(***************************************************************************)
(* Bounds and identifiers                                                  *)
(***************************************************************************)
\* number of Family documents that may be created
MaxFamilies == 2

Admins == {"a"}
Parents == {"p1"}
Children == {"c1"}
Uids == Admins \cup Parents \cup Children
Reasons == {"r"}

FamilyIds == 1..MaxFamilies
\* familyId '' / undefined: no family
NoFamily == 0

(***************************************************************************)
(* types.ts                                                                *)
(***************************************************************************)
SUPER_ADMIN == "SUPER_ADMIN"
PARENT == "PARENT"
CHILD == "CHILD"
PENDING_PARENT == "PENDING_PARENT"
PENDING_CHILD == "PENDING_CHILD"
UserRole == {SUPER_ADMIN, PARENT, CHILD, PENDING_PARENT, PENDING_CHILD}

PENDING == "PENDING"
APPROVED == "APPROVED"
REJECTED == "REJECTED"
SUSPENDED == "SUSPENDED"
ApprovalStatus == {PENDING, APPROVED, REJECTED, SUSPENDED}

MODERATE == "MODERATE"

(***************************************************************************)
(* Firestore primitives                                                    *)
(***************************************************************************)
Range(s) == {s[i] : i \in 1..Len(s)}

\* docSnap.exists()
Exists(store, id) == id \in DOMAIN store

\* updateDoc / transaction.update: the named fields are replaced, the
\* others kept.  The caller checks Exists first (updateDoc on a missing
\* document throws).
updateDoc(store, id, patch) ==
  [store EXCEPT ![id] =
     [f \in DOMAIN store[id] |->
        IF f \in DOMAIN patch THEN patch[f] ELSE store[id][f]]]

\* setDoc / transaction.set: the document is created or replaced
setDoc(store, id, document) ==
  [x \in DOMAIN store \cup {id} |-> IF x = id THEN document ELSE store[x]]

\* arrayUnion replaced by a plain append
arrayUnion_Append(s, x) == Append(s, x)

\* arrayUnion(x): appended unless already an element
arrayUnion(s, x) == IF x \in Range(s) THEN s ELSE Append(s, x)

\* arrayRemove(x): every occurrence removed
arrayRemove(s, x) == SelectSeq(s, LAMBDA y : y # x)

\* Array.prototype.includes
includes(s, x) == x \in Range(s)

\* doc(familiesCollection): a fresh document id.  No Family is ever deleted,
\* so the ids in use are 1..n.
NewDocId(store) == Cardinality(DOMAIN store) + 1

Count(s, x) == Cardinality({i \in 1..Len(s) : s[i] = x})

(***************************************************************************)
(* createUserProfile                                                       *)
(***************************************************************************)
\* the address of the Firebase Auth account uid; Auth keeps addresses unique
EmailOf(uid) == uid \o "@mail"

NewUserProfile(email, role) ==
  [email |-> email,
   parentEmail |-> "",
   role |-> role,
   filterLevel |-> MODERATE,
   approvalStatus |-> PENDING,
   parentUid |-> "",
   familyId |-> NoFamily,
   childrenUids |-> <<>>,
   approvedBy |-> "",
   rejectedReason |-> ""]

\* the pre-configured site administrator
AdminProfile ==
  [NewUserProfile(EmailOf("a"), SUPER_ADMIN) EXCEPT !.approvalStatus = APPROVED]

NoCall == [op |-> "none", pc |-> 0, fid |-> NoFamily, uid |-> "", parentUid |-> ""]

\* the step just taken: the operation, its arguments, whether it succeeded,
\* and whether it repeats the successful call completed just before it
Done(op, by, target, fid, ok) ==
  [op |-> op, by |-> by, target |-> target, fid |-> fid, ok |-> ok,
   again |-> last.ok /\ last.op = op /\ last.by = by
             /\ last.target = target /\ last.fid = fid]

\* the stores after deployment: the administrator's profile, no family
InitStores ==
  /\ users = [u \in Admins |-> AdminProfile]
  /\ families = [f \in {} |-> 0]
  /\ call = NoCall
  /\ last = [op |-> "init", by |-> "", target |-> "", fid |-> NoFamily,
             ok |-> TRUE, again |-> FALSE]

\* a request without an Authorization header
NoAuthorization == [present |-> FALSE, segments |-> 0, exp |-> 0, iss |-> "", aud |-> ""]

\* no request at the gateway: nothing received, fetched or answered
NoRequest ==
  [pc |-> "idle",
   request |-> [method |-> "", url |-> <<>>, authorization |-> NoAuthorization,
               headers |-> <<>>],
   fetches |-> 0,
   outbound |-> [url |-> <<>>, method |-> "", headers |-> <<>>],
   upstream |-> [status |-> 0, headers |-> <<>>, elements |-> <<>>],
   thrown |-> "",
   responses |-> 0,
   response |-> [status |-> 0, hasBody |-> FALSE, text |-> "",
                 elements |-> <<>>, headers |-> <<>>]]

\* no access decision under evaluation
NoCheck == [checked |-> FALSE]

\* the invites collection is empty and no code has been looked up; now is
\* Date.now() in hours, docs the collection in the order a query returns it
NoInvites ==
  [now |-> 0, docs |-> <<>>,
   lookup |-> [n |-> 0, code |-> "", result |-> NoFamily]]

\* the result of a fetchProxiedContent call: a thrown error with its class
\* and reason, or the request sent to the worker
Outcome(kind, reason, message) == [kind |-> kind, reason |-> reason, message |-> message]

\* no proxied fetch requested: user is the signed-in uid ("" for null),
\* userProfile the optional argument (a set of at most one profile),
\* endpoint whether VITE_PROXY_WORKER_URL is set, profile the profile the
\* call examined
NoFetch ==
  [pc |-> "idle", user |-> "", userProfile |-> {}, endpoint |-> FALSE,
   profile |-> {}, requests |-> 0, outcome |-> Outcome("", "", "")]

\* no children query made
NoQuery == [n |-> 0, familyId |-> NoFamily, result |-> <<>>]

\* the auth context before Firebase reports the auth state
NoAuth ==
  [pc |-> "idle", user |-> "", userProfile |-> {}, loading |-> TRUE,
   unsubscribeProfile |-> "", refresh |-> ""]

InitClients ==
  /\ invites = NoInvites
  /\ client = NoFetch
  /\ query = NoQuery
  /\ auth = NoAuth

Init ==
  /\ InitStores
  /\ gateway = NoRequest
  /\ policy = NoCheck
  /\ InitClients

\* signUp: a fresh Firebase Auth account, then createUserProfile
createUserProfile(uid, email, role, parentEmail) ==
  /\ ~Exists(users, uid)
  /\ users' = setDoc(users, uid,
                     IF role = PENDING_CHILD /\ parentEmail # ""
                     THEN [NewUserProfile(email, role)
                             EXCEPT !.parentEmail = parentEmail]
                     ELSE NewUserProfile(email, role))
  /\ last' = Done("createUserProfile", "", uid, NoFamily, TRUE)
  /\ UNCHANGED <<families, call, gateway, policy, clientVars>>

\* the parentEmail argument of signUp: the address of a parent's account.
\* (The argument is optional; a child signing up without it is stored with
\* no parentEmail at all.)
ParentEmailInputs == {EmailOf(p) : p \in Parents}

signUp ==
  \/ \E uid \in Parents, parentEmail \in ParentEmailInputs :
       createUserProfile(uid, EmailOf(uid), PENDING_PARENT, parentEmail)
  \/ \E uid \in Children, parentEmail \in ParentEmailInputs :
       createUserProfile(uid, EmailOf(uid), PENDING_CHILD, parentEmail)

(***************************************************************************)
(* Approval state machine: services/userService.ts                         *)
(***************************************************************************)
\* a transaction body's result: committed writes, or a throw (no writes)
Commit(U, F) == [ok |-> TRUE, users |-> U, families |-> F]
Throw(U, F) == [ok |-> FALSE, users |-> U, families |-> F]

\* parentData.filterLevel || FilterLevel.MODERATE
FilterLevelOrDefault(level) == IF level = "" THEN MODERATE ELSE level

NewFamily(parentUid, level) ==
  [parentUid |-> parentUid, childrenUids |-> <<>>, filterLevel |-> level]

\* approveParentRequest with the Family written before the parent is looked
\* up, and the missing parent not reported
approveParentTxn_SetBeforeCheck(U, F, adminUid, parentUid) ==
  LET newFamilyId == NewDocId(F)
      F1 == setDoc(F, newFamilyId, NewFamily(parentUid, MODERATE))
  IN IF ~Exists(U, parentUid)
     THEN Commit(U, F1)
     ELSE Commit(updateDoc(U, parentUid,
                           [role |-> PARENT,
                            approvalStatus |-> APPROVED,
                            familyId |-> newFamilyId,
                            approvedBy |-> adminUid]), F1)

\* the body of approveParentRequest's transaction over stores U, F
approveParentTxn(U, F, adminUid, parentUid) ==
  IF ~Exists(U, parentUid)
  THEN Throw(U, F)   \* "Parent user not found"
  ELSE LET newFamilyId == NewDocId(F)
           F1 == setDoc(F, newFamilyId,
                        NewFamily(parentUid,
                                  FilterLevelOrDefault(U[parentUid].filterLevel)))
           U1 == updateDoc(U, parentUid,
                           [role |-> PARENT,
                            approvalStatus |-> APPROVED,
                            familyId |-> newFamilyId,
                            approvedBy |-> adminUid])
       IN Commit(U1, F1)

\* approveChildRequest without step 6, the write of the Family document
approveChildTxn_NoFamilyWrite(U, F, parentUid, childUid) ==
  IF ~Exists(U, parentUid) THEN Throw(U, F)
  ELSE IF U[parentUid].familyId = NoFamily THEN Throw(U, F)
  ELSE IF ~Exists(U, childUid) THEN Throw(U, F)
  ELSE IF ~Exists(F, U[parentUid].familyId) THEN Throw(U, F)
  ELSE LET parentData == U[parentUid]
           U1 == updateDoc(U, childUid,
                           [role |-> CHILD,
                            approvalStatus |-> APPROVED,
                            parentUid |-> parentUid,
                            familyId |-> parentData.familyId,
                            approvedBy |-> parentUid])
           U2 == IF ~includes(parentData.childrenUids, childUid)
                 THEN updateDoc(U1, parentUid,
                        [childrenUids |-> Append(parentData.childrenUids, childUid)])
                 ELSE U1
       IN Commit(U2, F)

\* approveChildRequest pushing the child without the includes() tests
approveChildTxn_AlwaysPush(U, F, parentUid, childUid) ==
  IF ~Exists(U, parentUid) THEN Throw(U, F)
  ELSE IF U[parentUid].familyId = NoFamily THEN Throw(U, F)
  ELSE IF ~Exists(U, childUid) THEN Throw(U, F)
  ELSE IF ~Exists(F, U[parentUid].familyId) THEN Throw(U, F)
  ELSE LET parentData == U[parentUid]
           familyData == F[parentData.familyId]
           U1 == updateDoc(U, childUid,
                           [role |-> CHILD,
                            approvalStatus |-> APPROVED,
                            parentUid |-> parentUid,
                            familyId |-> parentData.familyId,
                            approvedBy |-> parentUid])
           U2 == updateDoc(U1, parentUid,
                   [childrenUids |-> Append(parentData.childrenUids, childUid)])
           F1 == updateDoc(F, parentData.familyId,
                   [childrenUids |-> Append(familyData.childrenUids, childUid)])
       IN Commit(U2, F1)

approveChildTxn_KeepSuspended(U, F, parentUid, childUid) ==
  IF ~Exists(U, parentUid) THEN Throw(U, F)
  ELSE IF U[parentUid].familyId = NoFamily THEN Throw(U, F)
  ELSE IF ~Exists(U, childUid) THEN Throw(U, F)
  ELSE IF ~Exists(F, U[parentUid].familyId) THEN Throw(U, F)
  ELSE LET parentData == U[parentUid]
           familyData == F[parentData.familyId]
           U1 == updateDoc(U, childUid,
                           [role |-> CHILD,
                            approvalStatus |->
                              IF U[childUid].approvalStatus = SUSPENDED
                              THEN SUSPENDED ELSE APPROVED,
                            parentUid |-> parentUid,
                            familyId |-> parentData.familyId,
                            approvedBy |-> parentUid])
           U2 == IF ~includes(parentData.childrenUids, childUid)
                 THEN updateDoc(U1, parentUid,
                        [childrenUids |-> Append(parentData.childrenUids, childUid)])
                 ELSE U1
           F1 == IF ~includes(familyData.childrenUids, childUid)
                 THEN updateDoc(F, parentData.familyId,
                        [childrenUids |-> Append(familyData.childrenUids, childUid)])
                 ELSE F
       IN Commit(U2, F1)

\* the body of approveChildRequest's transaction over stores U, F
approveChildTxn(U, F, parentUid, childUid) ==
  IF ~Exists(U, parentUid) THEN Throw(U, F)            \* "Parent not found"
  ELSE IF U[parentUid].familyId = NoFamily THEN Throw(U, F)
                                  \* "Parent does not have a valid Family ID"
  ELSE IF ~Exists(U, childUid) THEN Throw(U, F)        \* "Child not found"
  ELSE IF ~Exists(F, U[parentUid].familyId) THEN Throw(U, F)
                                                       \* "Family not found"
  ELSE LET parentData == U[parentUid]
           familyData == F[parentData.familyId]
           U1 == updateDoc(U, childUid,
                           [role |-> CHILD,
                            approvalStatus |-> APPROVED,
                            parentUid |-> parentUid,
                            familyId |-> parentData.familyId,
                            approvedBy |-> parentUid])
           U2 == IF ~includes(parentData.childrenUids, childUid)
                 THEN updateDoc(U1, parentUid,
                        [childrenUids |-> Append(parentData.childrenUids, childUid)])
                 ELSE U1
           F1 == IF ~includes(familyData.childrenUids, childUid)
                 THEN updateDoc(F, parentData.familyId,
                        [childrenUids |-> Append(familyData.childrenUids, childUid)])
                 ELSE F
       IN Commit(U2, F1)

\* runTransaction: the body's writes are applied together when it commits;
\* when the body throws, or the transaction is given up under contention,
\* nothing is written.
runTransaction(op, by, target, result) ==
  \E committed \in BOOLEAN :
    LET ok == result.ok /\ committed IN
    /\ users' = IF ok THEN result.users ELSE users
    /\ families' = IF ok THEN result.families ELSE families
    /\ last' = Done(op, by, target, NoFamily, ok)
    /\ UNCHANGED <<call, gateway, policy, clientVars>>

approveParentRequest(adminUid, parentUid) ==
  /\ Exists(users, parentUid) => Cardinality(DOMAIN families) < MaxFamilies
  /\ runTransaction("approveParentRequest", adminUid, parentUid,
                    approveParentTxn(users, families, adminUid, parentUid))

approveChildRequest(parentUid, childUid) ==
  runTransaction("approveChildRequest", parentUid, childUid,
                 approveChildTxn(users, families, parentUid, childUid))

\* a single-document updateDoc on a profile: throws, writing nothing, when
\* the document does not exist
updateProfile(op, by, targetUid, patch) ==
  /\ users' = IF Exists(users, targetUid)
              THEN updateDoc(users, targetUid, patch) ELSE users
  /\ last' = Done(op, by, targetUid, NoFamily, Exists(users, targetUid))
  /\ UNCHANGED <<families, call, gateway, policy, clientVars>>

rejectParentRequest(adminUid, parentUid, reason) ==
  updateProfile("rejectParentRequest", adminUid, parentUid,
                [approvalStatus |-> REJECTED,
                 rejectedReason |-> reason,
                 approvedBy |-> adminUid])

rejectChildRequest_Demote(parentUid, childUid, reason) ==
  updateProfile("rejectChildRequest", parentUid, childUid,
                [approvalStatus |-> REJECTED,
                 rejectedReason |-> reason,
                 approvedBy |-> parentUid,
                 role |-> PENDING_CHILD,
                 familyId |-> NoFamily])

rejectChildRequest(parentUid, childUid, reason) ==
  updateProfile("rejectChildRequest", parentUid, childUid,
                [approvalStatus |-> REJECTED,
                 rejectedReason |-> reason,
                 approvedBy |-> parentUid])

suspendUser_Guarded(suspenderUid, targetUid, reason) ==
  IF \/ suspenderUid \in Admins
     \/ Exists(users, targetUid) /\ users[targetUid].parentUid = suspenderUid
  THEN updateProfile("suspendUser", suspenderUid, targetUid,
                     [approvalStatus |-> SUSPENDED,
                      rejectedReason |-> reason])
  ELSE /\ last' = Done("suspendUser", suspenderUid, targetUid, NoFamily, FALSE)
       /\ UNCHANGED <<users, families, call, gateway, policy, clientVars>>

\* suspenderUid is accepted and never read: no permission is verified
suspendUser(suspenderUid, targetUid, reason) ==
  updateProfile("suspendUser", suspenderUid, targetUid,
                [approvalStatus |-> SUSPENDED,
                 rejectedReason |-> reason])

handleUnsuspend_OnlySuspended(childUid) ==
  IF Exists(users, childUid) /\ users[childUid].approvalStatus # SUSPENDED
  THEN /\ last' = Done("handleUnsuspend", "", childUid, NoFamily, TRUE)
       /\ UNCHANGED <<users, families, call, gateway, policy, clientVars>>
  ELSE updateProfile("handleUnsuspend", "", childUid,
                     [approvalStatus |-> APPROVED,
                      rejectedReason |-> ""])

\* FamilyManagement.handleUnsuspend -> updateUserProfile
handleUnsuspend(childUid) ==
  updateProfile("handleUnsuspend", "", childUid,
                [approvalStatus |-> APPROVED,
                 rejectedReason |-> ""])

isUserApproved(profile) == profile.approvalStatus = APPROVED

canAccessProxy_StatusOnly(profile) == profile.approvalStatus = APPROVED

canAccessProxy(profile) ==
  IF profile.approvalStatus # APPROVED
  THEN FALSE
  ELSE profile.role \in {SUPER_ADMIN, PARENT, CHILD}

\* familyService.findParentByEmail: the first profile with that email and
\* role PARENT, or "" for null
findParentByEmail(email) ==
  LET docs == {u \in DOMAIN users :
                 users[u].email = email /\ users[u].role = PARENT}
  IN IF docs # {} THEN CHOOSE u \in docs : TRUE ELSE ""

(***************************************************************************)
(* Family aggregate manager: services/familyService.ts.  One call may be   *)
(* in flight; call.pc is the await it has reached.                         *)
(***************************************************************************)
Idle == call.op = "none"

InFlight(op, pc, fid, uid, parentUid) ==
  [op |-> op, pc |-> pc, fid |-> fid, uid |-> uid, parentUid |-> parentUid]

\* createFamily, up to the first await: setDoc(newFamilyRef, newFamily)
createFamilySet(parentUid) ==
  /\ Idle
  /\ Cardinality(DOMAIN families) < MaxFamilies
  /\ LET newFamilyId == NewDocId(families) IN
     /\ families' = setDoc(families, newFamilyId, NewFamily(parentUid, MODERATE))
     /\ call' = InFlight("createFamily", 2, newFamilyId, parentUid, parentUid)
     /\ last' = Done("createFamily:set", "", parentUid, newFamilyId, TRUE)
  /\ UNCHANGED <<users, gateway, policy, clientVars>>

\* createFamily, second await: updateDoc(userDoc(parentUid), {familyId})
createFamilyLink ==
  /\ call.op = "createFamily" /\ call.pc = 2
  /\ users' = IF Exists(users, call.uid)
              THEN updateDoc(users, call.uid, [familyId |-> call.fid])
              ELSE users
  /\ call' = NoCall
  /\ last' = Done("createFamily", "", call.uid, call.fid, Exists(users, call.uid))
  /\ UNCHANGED <<families, gateway, policy, clientVars>>

\* addChildToFamily / removeChildFromFamily, first await: getFamily
getFamilyStep(op, familyId, childUid) ==
  /\ Idle
  /\ IF Exists(families, familyId)
     THEN /\ call' = InFlight(op, 2, familyId, childUid, families[familyId].parentUid)
          /\ last' = Done(op \o ":get", "", childUid, familyId, TRUE)
     ELSE /\ call' = NoCall      \* 'Family not found'
          /\ last' = Done(op, "", childUid, familyId, FALSE)
  /\ UNCHANGED <<users, families, gateway, policy, clientVars>>

\* second await: updateDoc(familyDoc(familyId), {childrenUids: ...})
familyArrayStep(op, childrenUids) ==
  /\ call.op = op /\ call.pc = 2
  /\ families' = updateDoc(families, call.fid, [childrenUids |-> childrenUids])
  /\ call' = [call EXCEPT !.pc = 3]
  /\ last' = Done(op \o ":family", "", call.uid, call.fid, TRUE)
  /\ UNCHANGED <<users, gateway, policy, clientVars>>

\* third await: updateDoc(userDoc(childUid), {familyId, parentUid}); throws
\* when the child has no profile
childLinkStep(op, patch) ==
  /\ call.op = op /\ call.pc = 3
  /\ IF Exists(users, call.uid)
     THEN /\ users' = updateDoc(users, call.uid, patch)
          /\ call' = [call EXCEPT !.pc = 4]
          /\ last' = Done(op \o ":child", "", call.uid, call.fid, TRUE)
     ELSE /\ users' = users
          /\ call' = NoCall
          /\ last' = Done(op, "", call.uid, call.fid, FALSE)
  /\ UNCHANGED <<families, gateway, policy, clientVars>>

\* fourth await: updateDoc(userDoc(family.parentUid), {childrenUids: ...});
\* throws when the parent has no profile
parentArrayStep(op, childrenUids) ==
  /\ call.op = op /\ call.pc = 4
  /\ users' = IF Exists(users, call.parentUid)
              THEN updateDoc(users, call.parentUid, [childrenUids |-> childrenUids])
              ELSE users
  /\ call' = NoCall
  /\ last' = Done(op, "", call.uid, call.fid, Exists(users, call.parentUid))
  /\ UNCHANGED <<families, gateway, policy, clientVars>>

addChildToFamily ==
  \/ \E f \in FamilyIds, c \in Children : getFamilyStep("addChildToFamily", f, c)
  \/ familyArrayStep("addChildToFamily",
                     arrayUnion(families[call.fid].childrenUids, call.uid))
  \/ childLinkStep("addChildToFamily",
                   [familyId |-> call.fid, parentUid |-> call.parentUid])
  \/ parentArrayStep("addChildToFamily",
                     arrayUnion(users[call.parentUid].childrenUids, call.uid))

removeChildFromFamily ==
  \/ \E f \in FamilyIds, c \in Children : getFamilyStep("removeChildFromFamily", f, c)
  \/ familyArrayStep("removeChildFromFamily",
                     arrayRemove(families[call.fid].childrenUids, call.uid))
  \/ childLinkStep("removeChildFromFamily",
                   [familyId |-> NoFamily, parentUid |-> ""])
  \/ parentArrayStep("removeChildFromFamily",
                     arrayRemove(users[call.parentUid].childrenUids, call.uid))

createFamily ==
  \/ \E p \in Parents : createFamilySet(p)
  \/ createFamilyLink

Next ==
  \/ signUp
  \/ \E a \in Admins, p \in Parents : approveParentRequest(a, p)
  \/ \E a \in Admins, p \in Parents, r \in Reasons : rejectParentRequest(a, p, r)
  \/ \E p \in Parents, c \in Children : approveChildRequest(p, c)
  \/ \E p \in Parents, c \in Children, r \in Reasons : rejectChildRequest(p, c, r)
  \/ \E s \in Uids, t \in Parents \cup Children, r \in Reasons : suspendUser(s, t, r)
  \/ \E t \in Parents \cup Children : handleUnsuspend(t)
  \/ createFamily
  \/ addChildToFamily
  \/ removeChildFromFamily

Spec == Init /\ [][Next]_vars

(***************************************************************************)
(* The access policy of services/userService.ts, applied to every profile  *)
(* a UserProfile document can hold: any role, any approval status, any     *)
(* filter level.                                                           *)
(***************************************************************************)
STRICT == "STRICT"
NONE == "NONE"
FilterLevel == {STRICT, MODERATE, NONE}

ProfileInputs ==
  {[NewUserProfile("", r) EXCEPT !.approvalStatus = s, !.filterLevel = l] :
     r \in UserRole, s \in ApprovalStatus, l \in FilterLevel}

Unchecked(profile) ==
  [checked |-> FALSE, profile |-> profile, approved |-> FALSE, access |-> FALSE]

\* the gate evaluates both predicates on the profile it was handed
checkAccess ==
  /\ ~policy.checked
  /\ policy' = [policy EXCEPT !.checked = TRUE,
                               !.approved = isUserApproved(policy.profile),
                               !.access = canAccessProxy(policy.profile)]
  /\ UNCHANGED <<users, families, call, last, gateway, clientVars>>

PolicyInit ==
  /\ InitStores
  /\ InitClients
  /\ gateway = NoRequest
  /\ policy \in {Unchecked(p) : p \in ProfileInputs}

PolicyNext == checkAccess

PolicySpec == PolicyInit /\ [][PolicyNext]_vars

(***************************************************************************)
(* The proxy gateway: worker.js.                                           *)
(*                                                                         *)
(* A string that holds a URL or an attribute value is a sequence of        *)
(* tokens: a scheme with its colon ("https:"), the authority marker "//",  *)
(* the path separator "/", or a name (a host, a path segment, "." or       *)
(* "..").  "https://h/a/" is <<"https:", "//", "h", "/", "a", "/">>.       *)
(***************************************************************************)
Schemes == {"http:", "https:", "ftp:", "mailto:"}

\* schemes followed by // and a host; the others have an opaque path
HierarchicalSchemes == {"http:", "https:", "ftp:"}

\* a host the URL parser refuses: an unclosed IPv6 literal
BadHost == "["

\* String.prototype.startsWith("http"): decided by the first token's text
startsWithHttp(str) == str # <<>> /\ Head(str) \in {"http:", "https:", "httpdocs"}

\* String.prototype.startsWith("//")
startsWithSlashSlash(str) == str # <<>> /\ Head(str) = "//"

Front(seq) == SubSeq(seq, 1, Len(seq) - 1)

\* the segments of a path, split at each "/"; a path that ends in "/" has an
\* empty last segment, a path that starts with "/" an empty first one
RECURSIVE Split(_)
Split(path) ==
  IF path = <<>> THEN <<"">>
  ELSE IF Head(path) = "/" THEN <<"">> \o Split(Tail(path))
  ELSE IF Tail(path) = <<>> THEN <<Head(path)>>
  ELSE <<Head(path)>> \o Split(Tail(Tail(path)))

\* the URL parser's path state: "." is dropped, ".." drops the segment
\* before it, and either of them in last position leaves a trailing slash
RECURSIVE RemoveDots(_, _)
RemoveDots(segs, out) ==
  IF segs = <<>> THEN out
  ELSE LET s == Head(segs)
           slash == IF Len(segs) = 1 THEN <<"">> ELSE <<>>
       IN IF s = ".."
          THEN RemoveDots(Tail(segs), (IF out = <<>> THEN out ELSE Front(out)) \o slash)
          ELSE IF s = "."
          THEN RemoveDots(Tail(segs), out \o slash)
          ELSE RemoveDots(Tail(segs), Append(out, s))

\* the serialised path: "/" before each segment
RECURSIVE JoinPath(_)
JoinPath(segs) ==
  IF segs = <<>> THEN <<>>
  ELSE (IF Head(segs) = "" THEN <<"/">> ELSE <<"/", Head(segs)>>)
       \o JoinPath(Tail(segs))

InvalidURL == [ok |-> FALSE, href |-> <<>>, scheme |-> "", host |-> "", segs |-> <<>>]

HierarchicalURL(scheme, host, segs) ==
  [ok |-> TRUE, scheme |-> scheme, host |-> host, segs |-> segs,
   href |-> <<scheme, "//", host>> \o JoinPath(segs)]

\* new URL(str): str must be absolute; ok = FALSE stands for the TypeError
parseURL(str) ==
  IF str = <<>> \/ Head(str) \notin Schemes THEN InvalidURL
  ELSE IF Head(str) \notin HierarchicalSchemes
  THEN [ok |-> TRUE, scheme |-> Head(str), host |-> "", segs |-> <<>>, href |-> str]
  ELSE IF Len(str) < 3 \/ str[2] # "//" \/ str[3] = BadHost THEN InvalidURL
  ELSE HierarchicalURL(Head(str), str[3],
                       RemoveDots(Tail(Split(SubSeq(str, 4, Len(str)))), <<>>))

\* new URL(str, base.href): a reference resolved against a hierarchical base
resolveURL(str, base) ==
  IF str = <<>> THEN base
  ELSE IF Head(str) \in Schemes THEN parseURL(str)
  ELSE IF Head(str) = "//" THEN parseURL(<<base.scheme>> \o str)
  ELSE IF Head(str) = "/"
  THEN HierarchicalURL(base.scheme, base.host, RemoveDots(Tail(Split(str)), <<>>))
  ELSE HierarchicalURL(base.scheme, base.host,
                       RemoveDots(Front(base.segs) \o Split(str), <<>>))

corsHeaders ==
  ("Access-Control-Allow-Origin" :> "*")
  @@ ("Access-Control-Allow-Methods" :> "GET, HEAD, POST, OPTIONS")
  @@ ("Access-Control-Allow-Headers" :> "Content-Type, Authorization")

\* new Response(body, {status, headers}) for the gateway's own responses:
\* text is the body, hasBody is FALSE for a null body
Response(status, hasBody, text, headers) ==
  [status |-> status, hasBody |-> hasBody, text |-> text,
   elements |-> <<>>, headers |-> headers]

AttributeRewriter_ResolveAll(attributeName, baseUrlObj, element) ==
  IF element.name # attributeName \/ element.value = <<>>
  THEN element
  ELSE LET newUrl == resolveURL(element.value, baseUrlObj)
       IN IF newUrl.ok
          THEN [element EXCEPT !.value = newUrl.href]
          ELSE element

\* AttributeRewriter.element: element.getAttribute(attributeName) is null
\* when the element carries another attribute
AttributeRewriter(attributeName, baseUrlObj, element) ==
  IF element.name # attributeName \/ element.value = <<>>
  THEN element
  ELSE IF startsWithHttp(element.value) \/ startsWithSlashSlash(element.value)
  THEN element
  ELSE LET newUrl == resolveURL(element.value, baseUrlObj)
       IN IF newUrl.ok
          THEN [element EXCEPT !.value = newUrl.href]
          ELSE element

\* new HTMLRewriter().on("a", href).on("img", src).on("link", href)
\*                   .on("script", src).transform(response)
HTMLRewriter(elements, targetUrlObj) ==
  [i \in DOMAIN elements |->
     LET element == elements[i] IN
     IF element.tag = "a" THEN AttributeRewriter("href", targetUrlObj, element)
     ELSE IF element.tag = "img" THEN AttributeRewriter("src", targetUrlObj, element)
     ELSE IF element.tag = "link" THEN AttributeRewriter("href", targetUrlObj, element)
     ELSE IF element.tag = "script" THEN AttributeRewriter("src", targetUrlObj, element)
     ELSE element]

\* contentType && contentType.includes("text/html")
isHtml(headers) ==
  /\ "content-type" \in DOMAIN headers
  /\ headers["content-type"] \in {"text/html", "text/html; charset=utf-8"}

\* headers.set(key, corsHeaders[key]) for every key of corsHeaders
withCors(headers) ==
  [h \in DOMAIN headers \cup DOMAIN corsHeaders |->
     IF h \in DOMAIN corsHeaders THEN corsHeaders[h] ELSE headers[h]]

\* the request the gateway sends upstream
newRequest(targetUrl, method) ==
  [url |-> targetUrl, method |-> method,
   headers |-> ("User-Agent" :> "OpenFamilySafe/1.0")
               @@ ("Accept" :> "text/html,application/xhtml+xml,application/xml;q=0.9,*/*;q=0.8")]

Responded(response) ==
  [gateway EXCEPT !.pc = "done", !.response = response,
                  !.responses = gateway.responses + 1]

\* the incoming headers, bearer token included, copied to the outbound request
workerRequest_Forward(request) ==
  /\ gateway.pc = "idle"
  /\ LET received == [gateway EXCEPT !.request = request] IN
     gateway' =
       IF request.method = "OPTIONS"
       THEN [received EXCEPT !.pc = "done", !.responses = 1,
               !.response = Response(200, FALSE, "", corsHeaders)]
       ELSE IF request.url = <<>>
       THEN [received EXCEPT !.pc = "done", !.responses = 1,
               !.response = Response(400, TRUE, "Missing 'url' query parameter.",
                                     corsHeaders)]
       ELSE IF ~request.authorization.present
       THEN [received EXCEPT !.pc = "done", !.responses = 1,
               !.response = Response(401, TRUE,
                                     "Unauthorized: Missing Authorization header.",
                                     corsHeaders)]
       ELSE IF ~parseURL(request.url).ok
       THEN [received EXCEPT !.pc = "done", !.responses = 1,
               !.thrown = "Invalid URL",
               !.response = Response(500, TRUE, "Proxy Error: " \o "Invalid URL",
                                     corsHeaders)]
       ELSE [received EXCEPT !.pc = "fetching", !.fetches = 1,
               !.outbound =
                 [newRequest(request.url, request.method) EXCEPT
                    !.headers = @ @@ request.headers
                                  @@ ("Authorization" :> "Bearer")]]
  /\ UNCHANGED <<users, families, call, last, policy, clientVars>>

\* fetch(request, env, ctx), up to its only await: the upstream fetch
workerRequest(request) ==
  /\ gateway.pc = "idle"
  /\ LET received == [gateway EXCEPT !.request = request] IN
     gateway' =
       IF request.method = "OPTIONS"
       THEN [received EXCEPT !.pc = "done", !.responses = 1,
               !.response = Response(200, FALSE, "", corsHeaders)]
       ELSE IF request.url = <<>>
       THEN [received EXCEPT !.pc = "done", !.responses = 1,
               !.response = Response(400, TRUE, "Missing 'url' query parameter.",
                                     corsHeaders)]
       ELSE IF ~request.authorization.present
       THEN [received EXCEPT !.pc = "done", !.responses = 1,
               !.response = Response(401, TRUE,
                                     "Unauthorized: Missing Authorization header.",
                                     corsHeaders)]
       ELSE IF ~parseURL(request.url).ok
       THEN [received EXCEPT !.pc = "done", !.responses = 1,
               !.thrown = "Invalid URL",
               !.response = Response(500, TRUE, "Proxy Error: " \o "Invalid URL",
                                     corsHeaders)]
       ELSE [received EXCEPT !.pc = "fetching", !.fetches = 1,
               !.outbound = newRequest(request.url, request.method)]
  /\ UNCHANGED <<users, families, call, last, policy, clientVars>>

\* the upstream fetch resolves: rewrite an HTML body, merge the CORS headers
upstreamResponds(upstream) ==
  /\ gateway.pc = "fetching"
  /\ LET targetUrlObj == parseURL(gateway.request.url)
         body == IF isHtml(upstream.headers)
                 THEN HTMLRewriter(upstream.elements, targetUrlObj)
                 ELSE upstream.elements
     IN gateway' = [Responded([status |-> upstream.status, hasBody |-> TRUE,
                               text |-> "", elements |-> body,
                               headers |-> withCors(upstream.headers)])
                      EXCEPT !.upstream = upstream]
  /\ UNCHANGED <<users, families, call, last, policy, clientVars>>

upstreamFails_Retry(message) ==
  /\ gateway.pc = "fetching"
  /\ gateway' =
       IF gateway.fetches < 2
       THEN [gateway EXCEPT !.fetches = gateway.fetches + 1]
       ELSE [Responded(Response(500, TRUE, "Proxy Error: " \o message,
                                corsHeaders))
               EXCEPT !.thrown = message]
  /\ UNCHANGED <<users, families, call, last, policy, clientVars>>

\* the upstream fetch rejects: the catch block answers 500
upstreamFails(message) ==
  /\ gateway.pc = "fetching"
  /\ gateway' = [Responded(Response(500, TRUE, "Proxy Error: " \o message,
                                    corsHeaders))
                   EXCEPT !.thrown = message]
  /\ UNCHANGED <<users, families, call, last, policy, clientVars>>

(***************************************************************************)
(* The gateway's environment: the requests a caller can send and the       *)
(* outcomes of the upstream fetch.                                         *)
(***************************************************************************)
\* the current time, in the unit of the exp claim
Now == 1

\* FIREBASE_PROJECT_ID and the issuer Firebase signs ID tokens with
ProjectId == "demo-project"
ExpectedIssuer == "https://securetoken.google.com/" \o ProjectId

\* bearer tokens: the number of dot-separated segments and the claims of
\* the middle one
Tokens ==
  [present : {TRUE}, segments : {2, 3}, exp : {Now - 1, Now, Now + 1},
   iss : {ExpectedIssuer, "https://issuer.invalid/" \o ProjectId},
   aud : {ProjectId, "other-project"}]

Methods == {"GET", "POST", "OPTIONS"}

\* the url query parameter: absent, without a scheme, a directory, a page
TargetUrls ==
  { <<>>,
    <<"h", "/", "a">>,
    <<"https:", "//", "h", "/", "a", "/">>,
    <<"https:", "//", "h", "/", "a", "/", "b">> }

\* the headers of the incoming request beside Authorization: none, or the
\* client's X-Filter-Level with a cookie
RequestHeaders ==
  { <<>>, ("X-Filter-Level" :> "STRICT") @@ ("Cookie" :> "sid") }

Requests ==
  [method : Methods, url : TargetUrls,
   authorization : {NoAuthorization} \cup Tokens,
   headers : RequestHeaders]

\* attribute values: empty, absolute, protocol-relative, root-relative,
\* relative, relative with a first segment that starts with http, another
\* scheme, and one the URL parser refuses
AttrValues ==
  { <<>>,
    <<"https:", "//", "c", "/", "i">>,
    <<"//", "c", "/", "i">>,
    <<"/", "i">>,
    <<"i">>,
    <<".", "/", "i">>,
    <<"..", "/", "i">>,
    <<"..", "/", "..", "/", "..">>,
    <<"httpdocs", "/", "i">>,
    <<"mailto:", "x">>,
    <<"ftp:", "//", BadHost>> }

Tags == {"a", "img", "link", "script", "div"}

\* a body of one element carrying one attribute
Bodies ==
  {<<[tag |-> t, name |-> n, value |-> v]>> :
     t \in Tags, n \in {"href", "src"}, v \in AttrValues}

NoHeaders == [h \in {} |-> ""]

UpstreamHeaders ==
  {ct @@ ac :
     ct \in {NoHeaders} \cup {("content-type" :> t) :
                t \in {"text/html", "text/html; charset=utf-8", "application/json"}},
     ac \in {NoHeaders, ("Access-Control-Allow-Origin" :> "https://h")}}

Upstreams == [status : {200}, headers : UpstreamHeaders, elements : Bodies]

FetchErrors == {"Network connection lost"}

GatewayInit ==
  /\ InitStores
  /\ InitClients
  /\ policy = NoCheck
  /\ gateway = NoRequest

GatewayNext ==
  \/ \E request \in Requests : workerRequest(request)
  \/ \E upstream \in Upstreams : upstreamResponds(upstream)
  \/ \E message \in FetchErrors : upstreamFails(message)

GatewaySpec == GatewayInit /\ [][GatewayNext]_vars

(***************************************************************************)
(* The invite issuer and validator of services/familyService.ts, with the  *)
(* clock Date.now() reads.  Time is in hours.                              *)
(***************************************************************************)
\* expiresAt - createdAt: 48 * 60 * 60 * 1000 ms
InviteTtl == 48

\* the clock stops here
MaxTime == 75

\* the clock advances by one of these
ClockSteps == {24, 25}

\* invite documents that may be stored
MaxInvites == 2

\* the codes the random draw can produce
Codes == {"K1", "K2"}

\* seq with x inserted so that it becomes element number i
InsertAt(seq, i, x) == SubSeq(seq, 1, i - 1) \o <<x>> \o SubSeq(seq, i, Len(seq))

\* an approved parent with a family, as approveParentRequest leaves them
InviteInit ==
  /\ users = [u \in Admins \cup Parents |->
                IF u \in Admins THEN AdminProfile
                ELSE [NewUserProfile(EmailOf(u), PARENT) EXCEPT
                        !.approvalStatus = APPROVED, !.approvedBy = "a",
                        !.familyId = 1]]
  /\ families = [f \in {1} |-> NewFamily("p1", MODERATE)]
  /\ call = NoCall
  /\ last = [op |-> "init", by |-> "", target |-> "", fid |-> NoFamily,
             ok |-> TRUE, again |-> FALSE]
  /\ gateway = NoRequest
  /\ policy = NoCheck
  /\ InitClients

\* addDoc gives the document a random id, and a query without orderBy
\* returns documents in id order: the new invite lands anywhere in docs
generateFamilyInviteCode(familyId) ==
  /\ Len(invites.docs) < MaxInvites
  /\ \E code \in Codes, i \in 1..(Len(invites.docs) + 1) :
       invites' = [invites EXCEPT !.docs =
                     InsertAt(invites.docs, i,
                              [code |-> code, familyId |-> familyId,
                               createdAt |-> invites.now,
                               expiresAt |-> invites.now + InviteTtl])]
  /\ UNCHANGED <<users, families, call, last, gateway, policy, client, query, auth>>

\* getFamily: the id of the Family returned, NoFamily for null
getFamily(familyId) == IF Exists(families, familyId) THEN familyId ELSE NoFamily

\* the documents of docs, in order, whose code is code
RECURSIVE whereCode(_, _)
whereCode(docs, code) ==
  IF docs = <<>> THEN <<>>
  ELSE (IF Head(docs).code = code THEN <<Head(docs)>> ELSE <<>>)
       \o whereCode(Tail(docs), code)

validateFamilyInviteCode(code) ==
  /\ LET snapshot == whereCode(invites.docs, code)
         result ==
           IF snapshot = <<>> THEN NoFamily
           ELSE LET inviteData == snapshot[1] IN
                IF inviteData.expiresAt # 0 /\ invites.now > inviteData.expiresAt
                THEN NoFamily
                ELSE getFamily(inviteData.familyId)
     IN invites' = [invites EXCEPT !.lookup =
                      [n |-> 1 - invites.lookup.n, code |-> code, result |-> result]]
  /\ UNCHANGED <<users, families, call, last, gateway, policy, client, query, auth>>

\* time passes
tick(hours) ==
  /\ invites.now + hours <= MaxTime
  /\ invites' = [invites EXCEPT !.now = invites.now + hours]
  /\ UNCHANGED <<users, families, call, last, gateway, policy, client, query, auth>>

InviteNext ==
  \/ \E f \in DOMAIN families : generateFamilyInviteCode(f)
  \/ \E code \in Codes : validateFamilyInviteCode(code)
  \/ \E hours \in ClockSteps : tick(hours)

InviteSpec == InviteInit /\ [][InviteNext]_vars

(***************************************************************************)
(* The proxy client: services/proxyService.ts, fetchProxiedContent up to   *)
(* the request to the worker.                                              *)
(***************************************************************************)
\* the browser's user
ClientUid == "c1"

\* the profiles a non-admin account can hold or a caller can hand over
ClientProfiles ==
  {[NewUserProfile(EmailOf(ClientUid), r) EXCEPT !.approvalStatus = s] :
     r \in UserRole \ {SUPER_ADMIN}, s \in ApprovalStatus}

\* getUserProfile: the stored profile, or none
getUserProfile(uid) == IF Exists(users, uid) THEN {users[uid]} ELSE {}

accessGate_StatusOnly(profiles, endpoint) ==
  IF profiles = {}
  THEN Outcome("Error", "", "User profile not found. Access denied.")
  ELSE LET profile == CHOOSE p \in profiles : TRUE IN
       IF ~isUserApproved(profile)
       THEN Outcome("ProxyAccessDeniedError", profile.approvalStatus, "")
       ELSE IF ~endpoint
       THEN Outcome("Error", "", "Proxy Worker URL is not configured (VITE_PROXY_WORKER_URL missing).")
       ELSE Outcome("request", "", "")

\* fetchProxiedContent from the profile check to the request
accessGate(profiles, endpoint) ==
  IF profiles = {}
  THEN Outcome("Error", "", "User profile not found. Access denied.")
  ELSE LET profile == CHOOSE p \in profiles : TRUE IN
       IF ~canAccessProxy(profile)
       THEN IF profile.approvalStatus \in {PENDING, REJECTED, SUSPENDED}
            THEN Outcome("ProxyAccessDeniedError", profile.approvalStatus, "")
            ELSE Outcome("Error", "",
                         "Access Denied: You are not authorized to use this service.")
       ELSE IF ~endpoint
       THEN Outcome("Error", "", "Proxy Worker URL is not configured (VITE_PROXY_WORKER_URL missing).")
       ELSE Outcome("request", "", "")

\* the call has examined profiles and ended with outcome; a request outcome
\* is the fetch to the worker
Settled(profiles, outcome) ==
  [client EXCEPT !.pc = "done", !.outcome = outcome, !.profile = profiles,
                 !.requests = IF outcome.kind = "request"
                              THEN client.requests + 1 ELSE client.requests]

\* fetchProxiedContent up to its first await
fetchProxiedContent ==
  /\ client.pc = "idle"
  /\ client' =
       IF client.user = ""
       THEN Settled({}, Outcome("Error", "",
                                "User must be authenticated to use the proxy."))
       ELSE IF client.userProfile # {}
       THEN Settled(client.userProfile,
                    accessGate(client.userProfile, client.endpoint))
       ELSE [client EXCEPT !.pc = "getUserProfile"]
  /\ UNCHANGED <<users, families, call, last, gateway, policy, invites, query, auth>>

\* await getUserProfile(user.uid) resolves, or rejects and is caught
profileFetched(failed) ==
  /\ client.pc = "getUserProfile"
  /\ LET profiles == IF failed THEN {} ELSE getUserProfile(client.user)
     IN client' = Settled(profiles, accessGate(profiles, client.endpoint))
  /\ UNCHANGED <<users, families, call, last, gateway, policy, invites, query, auth>>

\* any stored profile, any handed-over profile, signed in or not
ClientInit ==
  /\ \E stored \in {{}} \cup {{p} : p \in ClientProfiles} :
       users = [u \in Admins \cup {ClientUid : p \in stored} |->
                  IF u \in Admins THEN AdminProfile ELSE CHOOSE p \in stored : TRUE]
  /\ families = [f \in {} |-> 0]
  /\ call = NoCall
  /\ last = [op |-> "init", by |-> "", target |-> "", fid |-> NoFamily,
             ok |-> TRUE, again |-> FALSE]
  /\ gateway = NoRequest
  /\ policy = NoCheck
  /\ invites = NoInvites
  /\ query = NoQuery
  /\ auth = NoAuth
  /\ client \in {[NoFetch EXCEPT !.user = u, !.userProfile = a, !.endpoint = e] :
                   u \in {"", ClientUid},
                   a \in {{}} \cup {{p} : p \in ClientProfiles},
                   e \in BOOLEAN}

ClientNext ==
  \/ fetchProxiedContent
  \/ \E failed \in BOOLEAN : profileFetched(failed)

ClientSpec == ClientInit /\ [][ClientNext]_vars

(***************************************************************************)
(* The children query of services/familyService.ts, run against the stores *)
(* while approvals and the family maintenance calls change them.           *)
(***************************************************************************)
\* where('familyId', '==', familyId), where('role', '==', UserRole.CHILD)
whereFamilyChild(familyId) ==
  {u \in DOMAIN users :
     users[u].familyId = familyId /\ users[u].role = CHILD}

getFamilyChildren_FromList(familyId) ==
  /\ query' = [n |-> 1 - query.n, familyId |-> familyId,
               result |-> IF Exists(families, familyId)
                          THEN [u \in Range(families[familyId].childrenUids)
                                        \cap DOMAIN users |-> users[u]]
                          ELSE <<>>]
  /\ UNCHANGED <<users, families, call, last, gateway, policy,
                 invites, client, auth>>

\* getDocs(q), then doc.data() of every document found
getFamilyChildren(familyId) ==
  /\ query' = [n |-> 1 - query.n, familyId |-> familyId,
               result |-> [u \in whereFamilyChild(familyId) |-> users[u]]]
  /\ UNCHANGED <<users, families, call, last, gateway, policy,
                 invites, client, auth>>

\* an approved parent with its Family, and a child who has signed up
QueryInit ==
  /\ users = [u \in Admins \cup Parents \cup Children |->
                IF u \in Admins THEN AdminProfile
                ELSE IF u \in Parents
                THEN [NewUserProfile(EmailOf(u), PARENT) EXCEPT
                        !.approvalStatus = APPROVED, !.approvedBy = "a",
                        !.familyId = 1]
                ELSE [NewUserProfile(EmailOf(u), PENDING_CHILD) EXCEPT
                        !.parentEmail = EmailOf("p1")]]
  /\ families = [f \in {1} |-> NewFamily("p1", MODERATE)]
  /\ call = NoCall
  /\ last = [op |-> "createUserProfile", by |-> "", target |-> "c1",
             fid |-> NoFamily, ok |-> TRUE, again |-> FALSE]
  /\ gateway = NoRequest
  /\ policy = NoCheck
  /\ InitClients

QueryNext ==
  \/ \E p \in Parents, c \in Children : approveChildRequest(p, c)
  \/ addChildToFamily
  \/ removeChildFromFamily
  \/ \E f \in FamilyIds : getFamilyChildren(f)

QuerySpec == QueryInit /\ [][QueryNext]_vars

(***************************************************************************)
(* The auth context of services/authContext.tsx: the React state user,     *)
(* userProfile and loading, the profile listener of the effect, and one    *)
(* refreshProfile call waiting for its profile read.                       *)
(***************************************************************************)
\* the accounts that sign in at this browser
AuthUids == Parents \cup Children

\* doc.data() as UserProfile: the stored profile, whose uid is the
\* document's id
docData(uid) == {[uid |-> uid, data |-> profile] : profile \in getUserProfile(uid)}

OtherClients == <<invites, client, query>>

\* the onAuthStateChanged callback: Firebase reports the state once at
\* start, then at every sign-in, sign-out and change of user.
\* firebaseUser = "" is null.
onAuthStateChanged(firebaseUser) ==
  /\ auth.pc = "idle" \/ firebaseUser # auth.user
  /\ auth' = IF firebaseUser # ""
             THEN [auth EXCEPT !.pc = "ready",
                               !.user = firebaseUser,
                               !.unsubscribeProfile = firebaseUser]
             ELSE [auth EXCEPT !.pc = "ready",
                               !.user = "",
                               !.unsubscribeProfile = "",
                               !.userProfile = {},
                               !.loading = FALSE]
  /\ UNCHANGED <<users, families, call, last, gateway, policy, OtherClients>>

\* the onSnapshot callback of the listener in place: at first, and again
\* whenever the document changes
onSnapshot ==
  /\ auth.unsubscribeProfile # ""
  /\ auth' = [auth EXCEPT !.userProfile = docData(auth.unsubscribeProfile),
                          !.loading = FALSE]
  /\ UNCHANGED <<users, families, call, last, gateway, policy, OtherClients>>

\* the error callback of the listener
onSnapshotError ==
  /\ auth.unsubscribeProfile # ""
  /\ auth.loading
  /\ auth' = [auth EXCEPT !.loading = FALSE]
  /\ UNCHANGED <<users, families, call, last, gateway, policy, OtherClients>>

\* refreshProfile, up to await getUserProfile(user.uid)
refreshProfile ==
  /\ auth.user # ""
  /\ auth.refresh = ""
  /\ auth' = [auth EXCEPT !.refresh = auth.user]
  /\ UNCHANGED <<users, families, call, last, gateway, policy, OtherClients>>

\* the profile read of refreshProfile returns, or throws
refreshFetched(failed) ==
  /\ auth.refresh # ""
  /\ auth' = IF failed
             THEN [auth EXCEPT !.refresh = ""]
             ELSE [auth EXCEPT !.refresh = "",
                               !.userProfile = docData(auth.refresh)]
  /\ UNCHANGED <<users, families, call, last, gateway, policy, OtherClients>>

AuthInit ==
  /\ InitStores
  /\ gateway = NoRequest
  /\ policy = NoCheck
  /\ InitClients

AuthNext ==
  \/ \E firebaseUser \in {""} \cup AuthUids : onAuthStateChanged(firebaseUser)
  \/ onSnapshot
  \/ onSnapshotError
  \/ refreshProfile
  \/ \E failed \in BOOLEAN : refreshFetched(failed)
  \/ signUp
  \/ \E a \in Admins, t \in AuthUids, r \in Reasons : suspendUser(a, t, r)

AuthSpec == AuthInit /\ [][AuthNext]_vars


(***************************************************************************)
(* Properties                                                              *)
(***************************************************************************)
NonAdmins == Parents \cup Children

FamiliesOf(parentUid) ==
  {f \in DOMAIN families : families[f].parentUid = parentUid}

\* the step just taken completed the operation op
Completed(op) == last.op = op

\* C1: after a successful approveParentRequest(adminId, parentId) there is a
\* new Family with parentUid = parentId, no children and the parent's
\* filterLevel, and the parent is PARENT / APPROVED with approvedBy = adminId
\* and familyId = that Family; and in every state each Family of a PARENT is
\* the one the parent's familyId points at (no createFamily being half
\* done), and every familyId that is set names an existing Family.
C1_ApproveParentLinked ==
  /\ (Completed("approveParentRequest") /\ last.ok) =>
       LET parent == users[last.target] IN
       /\ parent.role = PARENT
       /\ parent.approvalStatus = APPROVED
       /\ parent.approvedBy = last.by
       /\ Exists(families, parent.familyId)
       /\ families[parent.familyId] = NewFamily(last.target, parent.filterLevel)
  /\ \A p \in Parents :
       (Exists(users, p) /\ users[p].role = PARENT /\ call.op # "createFamily") =>
         \A f \in FamiliesOf(p) : users[p].familyId = f
  /\ \A u \in DOMAIN users :
       users[u].familyId # NoFamily => Exists(families, users[u].familyId)

\* C2: every approveChildRequest(parentId, childId) step either applies all
\* three writes together (the child is CHILD / APPROVED with parentUid =
\* parentId, familyId = the parent's familyId and approvedBy = parentId, and
\* childId is in the parent's and in the Family's childrenUids) or changes
\* no profile and no Family.
C2_ApproveChildAtomic ==
  [][ last'.op = "approveChildRequest" =>
        IF last'.ok
        THEN LET p == last'.by
                 c == last'.target
             IN /\ users'[c].role = CHILD
                /\ users'[c].approvalStatus = APPROVED
                /\ users'[c].parentUid = p
                /\ users'[c].familyId = users'[p].familyId
                /\ users'[c].approvedBy = p
                /\ includes(users'[p].childrenUids, c)
                /\ Exists(families', users'[p].familyId)
                /\ includes(families'[users'[p].familyId].childrenUids, c)
        ELSE UNCHANGED <<users, families>> ]_vars

C2_Witness ==
  /\ Completed("approveChildRequest") /\ last.ok
  /\ users[last.target].role = CHILD
  /\ users[last.target].familyId = users[last.by].familyId
  /\ includes(users[last.by].childrenUids, last.target)
  /\ includes(families[users[last.by].familyId].childrenUids, last.target)

\* C3: approveParentRequest fails when the parent profile is absent;
\* approveChildRequest fails when the parent profile, the child profile or
\* the parent's Family is absent or the parent has no familyId; and a
\* failed approval leaves every profile and every Family as it was.
C3_FailedApprovalNoChange ==
  [][ /\ last'.op = "approveParentRequest" =>
           (~Exists(users, last'.target) => ~last'.ok)
      /\ last'.op = "approveChildRequest" =>
           (( \/ ~Exists(users, last'.by)
              \/ ~Exists(users, last'.target)
              \/ users[last'.by].familyId = NoFamily
              \/ ~Exists(families, users[last'.by].familyId) ) => ~last'.ok)
      /\ (last'.op \in {"approveParentRequest", "approveChildRequest"} /\ ~last'.ok)
           => UNCHANGED <<users, families>> ]_vars

\* an approveChildRequest that found parent and child but no familyId
C3_Witness ==
  /\ Completed("approveChildRequest") /\ ~last.ok
  /\ Exists(users, last.by) /\ Exists(users, last.target)
  /\ users[last.by].familyId = NoFamily

\* C4: every profile with role PARENT has exactly one Family whose
\* parentUid is that parent.
C4_OneFamilyPerParent ==
  \A p \in Parents :
    (Exists(users, p) /\ users[p].role = PARENT) =>
      Cardinality(FamiliesOf(p)) = 1

\* C5: every CHILD / APPROVED profile has the familyId of an existing
\* Family, equal to the familyId of the profile its parentUid names, and
\* its uid occurs exactly once in that Family's and in that parent's
\* childrenUids.
C5_ApprovedChildLinked ==
  \A c \in DOMAIN users :
    (users[c].role = CHILD /\ users[c].approvalStatus = APPROVED) =>
      /\ Exists(families, users[c].familyId)
      /\ Exists(users, users[c].parentUid)
      /\ users[users[c].parentUid].familyId = users[c].familyId
      /\ Count(families[users[c].familyId].childrenUids, c) = 1
      /\ Count(users[users[c].parentUid].childrenUids, c) = 1

\* C6: an approveChildRequest(parentId, childId) that directly follows a
\* successful one with the same arguments does not throw, and leaves the
\* child's role, status, parentUid and familyId and both childrenUids
\* lists as they were, with childId once in each.
C6_ApproveChildIdempotent ==
  [][ ( /\ last.op = "approveChildRequest" /\ last.ok
        /\ last'.op = "approveChildRequest"
        /\ last'.by = last.by /\ last'.target = last.target ) =>
      LET p == last.by
          c == last.target
          f == users[p].familyId
      IN /\ approveChildTxn(users, families, p, c).ok
         /\ users'[c].role = users[c].role
         /\ users'[c].approvalStatus = users[c].approvalStatus
         /\ users'[c].parentUid = users[c].parentUid
         /\ users'[c].familyId = users[c].familyId
         /\ users'[p].childrenUids = users[p].childrenUids
         /\ families'[f].childrenUids = families[f].childrenUids
         /\ Count(users'[p].childrenUids, c) = 1
         /\ Count(families'[f].childrenUids, c) = 1 ]_vars

\* the second of two successive successful calls
C6_Witness ==
  /\ Completed("approveChildRequest") /\ last.ok /\ last.again
  /\ Count(users[last.by].childrenUids, last.target) = 1

\* C7: no childrenUids list of a profile or of a Family holds a uid twice.
C7_NoDuplicateChildren ==
  /\ \A u \in DOMAIN users :
       \A c \in Uids : Count(users[u].childrenUids, c) <= 1
  /\ \A f \in DOMAIN families :
       \A c \in Uids : Count(families[f].childrenUids, c) <= 1

\* approveChildRequest committed while an addChildToFamily of the same
\* child had written the Family's list and not yet the parent's
C7_Witness ==
  /\ Completed("approveChildRequest") /\ last.ok
  /\ call.op = "addChildToFamily" /\ call.pc \in {3, 4}
  /\ call.uid = last.target
  /\ call.fid = users[last.by].familyId
  /\ includes(families[call.fid].childrenUids, last.target)
  /\ includes(users[last.by].childrenUids, last.target)

\* C8: each uid in a Family's childrenUids names a profile with role CHILD
\* whose parentUid is the Family's parentUid.
C8_FamilyChildrenAreChildren ==
  \A f \in DOMAIN families :
    \A c \in Range(families[f].childrenUids) :
      /\ Exists(users, c)
      /\ users[c].role = CHILD
      /\ users[c].parentUid = families[f].parentUid

ValidRoleStatus ==
  { <<PENDING_PARENT, PENDING>>, <<PARENT, APPROVED>>, <<PARENT, SUSPENDED>>,
    <<PENDING_CHILD, PENDING>>, <<CHILD, APPROVED>>, <<CHILD, SUSPENDED>>,
    <<PENDING_PARENT, REJECTED>>, <<PENDING_CHILD, REJECTED>> }

\* C9: every non-admin profile has a (role, approvalStatus) pair of the
\* valid set.
C9_ValidRoleStatus ==
  \A u \in DOMAIN users \cap NonAdmins :
    <<users[u].role, users[u].approvalStatus>> \in ValidRoleStatus

\* C10: a suspended profile cannot access the proxy, and no step other than
\* an unsuspend of that profile makes a suspended profile able to.
C10_SuspensionRevokes ==
  [][ /\ last'.op = "suspendUser" /\ last'.ok =>
           ~canAccessProxy(users'[last'.target])
      /\ \A t \in DOMAIN users :
           ( /\ users[t].approvalStatus = SUSPENDED
             /\ ~(last'.op = "handleUnsuspend" /\ last'.target = t) ) =>
           ~canAccessProxy(users'[t]) ]_vars

\* C11: an evaluated profile is granted proxy access exactly when its
\* approvalStatus is APPROVED and its role is SUPER_ADMIN, PARENT or CHILD;
\* it counts as approved exactly when its approvalStatus is APPROVED; a
\* PENDING_PARENT or PENDING_CHILD profile is denied whatever its status.
C11_AccessPolicy ==
  policy.checked =>
    /\ policy.access <=> ( /\ policy.profile.approvalStatus = APPROVED
                           /\ policy.profile.role \in {SUPER_ADMIN, PARENT, CHILD} )
    /\ policy.approved <=> (policy.profile.approvalStatus = APPROVED)
    /\ policy.profile.role \in {PENDING_PARENT, PENDING_CHILD} => ~policy.access

\* an approved profile still in a pending role was evaluated and denied
C11_Witness ==
  /\ policy.checked
  /\ policy.profile.role = PENDING_CHILD
  /\ policy.profile.approvalStatus = APPROVED
  /\ policy.approved
  /\ ~policy.access

\* the profile store after one updateDoc of target that assigns exactly the
\* fields of patch
Patched(target, patch) ==
  [users EXCEPT ![target] = [k \in DOMAIN @ |->
                               IF k \in DOMAIN patch THEN patch[k] ELSE @[k]]]

\* C12: an unsuspend succeeds exactly when the target profile exists, and
\* then sets its approvalStatus to APPROVED whatever its prior status and
\* role, leaving role, familyId, parentUid and childrenUids, every other
\* profile and every Family as they were.
C12_UnsuspendUnconditional ==
  [][ last'.op = "handleUnsuspend" =>
        LET t == last'.target IN
        /\ last'.ok <=> Exists(users, t)
        /\ families' = families
        /\ DOMAIN users' = DOMAIN users
        /\ \A u \in DOMAIN users : u # t => users'[u] = users[u]
        /\ last'.ok =>
             /\ users'[t].approvalStatus = APPROVED
             /\ users'[t].role = users[t].role
             /\ users'[t].familyId = users[t].familyId
             /\ users'[t].parentUid = users[t].parentUid
             /\ users'[t].childrenUids = users[t].childrenUids ]_vars

\* an unsuspend has activated a profile that was never approved: its role
\* is still PENDING_CHILD
C12_Witness ==
  /\ last.op = "handleUnsuspend"
  /\ last.ok
  /\ users[last.target].role = PENDING_CHILD
  /\ users[last.target].approvalStatus = APPROVED
  /\ users[last.target].approvedBy = ""

\* C13: suspendUser verifies no permission: for every suspender and target
\* it succeeds exactly when the target profile exists, and then assigns
\* approvalStatus SUSPENDED and rejectedReason the supplied reason on the
\* target and changes nothing else.
C13_SuspendUnchecked ==
  [][ last'.op = "suspendUser" =>
        /\ last'.ok <=> Exists(users, last'.target)
        /\ families' = families
        /\ IF last'.ok
           THEN \E r \in Reasons :
                  users' = Patched(last'.target,
                                   [approvalStatus |-> SUSPENDED,
                                    rejectedReason |-> r])
           ELSE users' = users ]_vars

\* a child has suspended a parent
C13_Witness ==
  /\ last.op = "suspendUser"
  /\ last.ok
  /\ last.by \in Children
  /\ last.target \in Parents
  /\ users[last.target].approvalStatus = SUSPENDED
  /\ users[last.target].rejectedReason \in Reasons

\* C14: a rejection writes only the target profile: approvalStatus REJECTED,
\* rejectedReason the supplied reason and approvedBy the rejecting actor;
\* role, familyId, parentUid and childrenUids, every other profile and
\* every Family are unchanged.
C14_RejectWritesTargetOnly ==
  [][ last'.op \in {"rejectParentRequest", "rejectChildRequest"} =>
        /\ last'.ok <=> Exists(users, last'.target)
        /\ families' = families
        /\ IF last'.ok
           THEN \E r \in Reasons :
                  users' = Patched(last'.target,
                                   [approvalStatus |-> REJECTED,
                                    rejectedReason |-> r,
                                    approvedBy |-> last'.by])
           ELSE users' = users ]_vars

\* an approved, linked child has been rejected and is still a linked CHILD
C14_Witness ==
  /\ last.op = "rejectChildRequest"
  /\ last.ok
  /\ users[last.target].approvalStatus = REJECTED
  /\ users[last.target].approvedBy = last.by
  /\ users[last.target].role = CHILD
  /\ users[last.target].familyId # NoFamily
  /\ users[last.target].parentUid # ""

\* C15: every PENDING_CHILD or CHILD profile carries a non-empty parentUid
\* or a declared parentEmail that resolves to a parent profile.
C15_ChildHasParent ==
  \A u \in DOMAIN users :
    users[u].role \in {PENDING_CHILD, CHILD} =>
      \/ users[u].parentUid # ""
      \/ /\ users[u].parentEmail # ""
         /\ findParentByEmail(users[u].parentEmail) # ""

\* the documented token validation: three segments, exp after the current
\* time, the project's issuer and audience; "" when the token passes
TokenError(token) ==
  IF token.segments # 3 THEN "Invalid token format"
  ELSE IF token.exp <= Now THEN "Token expired"
  ELSE IF token.iss # ExpectedIssuer THEN "Invalid issuer"
  ELSE IF token.aud # ProjectId THEN "Invalid audience"
  ELSE ""

\* the first check a request fails, in the order OPTIONS, url, header, token
FirstFailure(request) ==
  IF request.method = "OPTIONS" THEN "options"
  ELSE IF request.url = <<>> THEN "url"
  ELSE IF ~request.authorization.present THEN "header"
  ELSE IF TokenError(request.authorization) # "" THEN "token"
  ELSE "none"

\* C16: the gateway answers with the first failing check: OPTIONS gets a
\* CORS-only response with no body, a missing url 400, a missing
\* Authorization header 401, a token that fails validation 401; only a
\* request passing all four is fetched upstream.
C16_FirstFailingCheck ==
  LET failure == FirstFailure(gateway.request) IN
  /\ gateway.pc = "fetching" => failure = "none"
  /\ gateway.pc = "done" =>
       /\ failure # "none" => gateway.fetches = 0
       /\ failure = "options" =>
            /\ ~gateway.response.hasBody
            /\ DOMAIN gateway.response.headers = DOMAIN corsHeaders
       /\ failure = "url" =>
            /\ gateway.response.status = 400
            /\ gateway.response.text = "Missing 'url' query parameter."
       /\ failure = "header" =>
            /\ gateway.response.status = 401
            /\ gateway.response.text = "Unauthorized: Missing Authorization header."
       /\ failure = "token" => gateway.response.status = 401

\* C17: a request carrying a bearer token with other than three segments,
\* an exp not after the current time, a wrong issuer or a wrong audience is
\* answered 401 and never fetched upstream.
C17_InvalidTokenRejected ==
  ( /\ gateway.pc # "idle"
    /\ gateway.request.method # "OPTIONS"
    /\ gateway.request.url # <<>>
    /\ gateway.request.authorization.present
    /\ TokenError(gateway.request.authorization) # "" ) =>
      /\ gateway.pc = "done"
      /\ gateway.fetches = 0
      /\ gateway.response.status = 401

\* C18: every response carries Access-Control-Allow-Origin: *,
\* Access-Control-Allow-Methods: GET, HEAD, POST, OPTIONS and
\* Access-Control-Allow-Headers: Content-Type, Authorization, X-Filter-Level.
C18_CorsOnEveryResponse ==
  gateway.pc = "done" =>
    /\ DOMAIN corsHeaders \subseteq DOMAIN gateway.response.headers
    /\ gateway.response.headers["Access-Control-Allow-Origin"] = "*"
    /\ gateway.response.headers["Access-Control-Allow-Methods"]
         = "GET, HEAD, POST, OPTIONS"
    /\ gateway.response.headers["Access-Control-Allow-Headers"]
         = "Content-Type, Authorization, X-Filter-Level"

\* the element/attribute pairs the rewriter is registered for
RewrittenPairs ==
  {<<"a", "href">>, <<"img", "src">>, <<"link", "href">>, <<"script", "src">>}

\* an upstream response has been proxied back
Proxied == gateway.pc = "done" /\ gateway.upstream.status # 0

\* the attribute value the rewriter is to produce for value, where the
\* values in keep are exempt besides those that start with http or // and
\* those whose resolution throws
Expected(value, base, keep) ==
  IF \/ value \in keep
     \/ startsWithHttp(value)
     \/ startsWithSlashSlash(value)
     \/ ~resolveURL(value, base).ok
  THEN value
  ELSE resolveURL(value, base).href

RewriterProperty(keep) ==
  Proxied =>
    LET base == parseURL(gateway.request.url)
        in == gateway.upstream.elements
        out == gateway.response.elements
    IN IF isHtml(gateway.upstream.headers)
       THEN /\ DOMAIN out = DOMAIN in
            /\ \A i \in DOMAIN in :
                 /\ out[i].tag = in[i].tag /\ out[i].name = in[i].name
                 /\ out[i].value =
                      IF <<in[i].tag, in[i].name>> \in RewrittenPairs
                      THEN Expected(in[i].value, base, keep)
                      ELSE in[i].value
                 /\ ( /\ <<in[i].tag, in[i].name>> \in RewrittenPairs
                      /\ in[i].value = <<".", "/", "i">>
                      /\ gateway.request.url = <<"https:", "//", "h", "/", "a", "/">> )
                    => out[i].value = <<"https:", "//", "h", "/", "a", "/", "i">>
            /\ HTMLRewriter(out, base) = out
       ELSE out = in

\* C19 as stated: each a/href, img/src, link/href, script/src value of an
\* HTML response is left unchanged when it starts with http or // or when
\* its resolution throws and is otherwise replaced by the value resolved
\* against the target URL; rewriting the result again changes nothing; a
\* response that is not text/html passes through unmodified.
C19_RewriterAsStated == RewriterProperty({})

\* C19, amended: as stated, and an empty attribute value is left unchanged
\* too.
C19_Rewriter == RewriterProperty({<<>>})

\* a relative a/href of an HTML page was replaced by its absolute form
C19_Witness ==
  /\ Proxied
  /\ isHtml(gateway.upstream.headers)
  /\ gateway.request.url = <<"https:", "//", "h", "/", "a", "/">>
  /\ gateway.upstream.elements = <<[tag |-> "a", name |-> "href", value |-> <<".", "/", "i">>]>>
  /\ gateway.response.elements[1].value = <<"https:", "//", "h", "/", "a", "/", "i">>

Validated == invites'.lookup.n # invites.lookup.n

\* the positions in the invites collection of the invites with that code
InvitesWith(code) == {i \in DOMAIN invites.docs : invites.docs[i].code = code}

\* C21: every invite expires 48 hours after its creation, and a lookup of a
\* code returns a Family exactly when an invite with that code exists whose
\* expiresAt is not before the current time, and then that invite's Family;
\* otherwise it returns null.
C21_ValidateWithinExpiry ==
  [][ /\ \A i \in DOMAIN invites.docs :
           invites.docs[i].expiresAt = invites.docs[i].createdAt + InviteTtl
      /\ Validated =>
           LET live == {i \in InvitesWith(invites'.lookup.code) :
                          invites.now <= invites.docs[i].expiresAt}
           IN IF live = {}
              THEN invites'.lookup.result = NoFamily
              ELSE \E i \in live :
                     /\ Exists(families, invites.docs[i].familyId)
                     /\ invites'.lookup.result = invites.docs[i].familyId ]_vars

\* C26: when several invites share a code, the lookup decides on the most
\* recently created of them: it returns that invite's Family when that
\* invite is unexpired, whatever the order of the query's result and
\* whatever older invites with the code exist.
C26_MostRecentInviteDecides ==
  [][ Validated =>
        LET same == InvitesWith(invites'.lookup.code) IN
        IF same = {}
        THEN invites'.lookup.result = NoFamily
        ELSE \E i \in same :
               /\ \A j \in same :
                    invites.docs[j].createdAt <= invites.docs[i].createdAt
               /\ invites'.lookup.result =
                    IF invites.now <= invites.docs[i].expiresAt
                    THEN invites.docs[i].familyId
                    ELSE NoFamily ]_vars

\* C22: a completed addChildToFamily(f, c) leaves c exactly once in Family
\* f's childrenUids and exactly once in the parent's, with c.familyId = f
\* and c.parentUid = f.parentUid; a completed removeChildFromFamily(f, c)
\* leaves c in neither list; a list write that adds a child already present
\* or removes one that is absent leaves the list unchanged; and a call
\* naming a Family that does not exist fails without changing any record.
C22_MirroredReferences ==
  [][ LET f == last'.fid
          c == last'.target
      IN
      /\ (last'.op = "addChildToFamily" /\ last'.ok) =>
           /\ Count(families'[f].childrenUids, c) = 1
           /\ Count(users'[families'[f].parentUid].childrenUids, c) = 1
           /\ users'[c].familyId = f
           /\ users'[c].parentUid = families'[f].parentUid
      /\ (last'.op = "removeChildFromFamily" /\ last'.ok) =>
           /\ ~includes(families'[f].childrenUids, c)
           /\ ~includes(users'[families'[f].parentUid].childrenUids, c)
      /\ (last'.op = "addChildToFamily:family"
            /\ includes(families[f].childrenUids, c)) => families' = families
      /\ (last'.op = "removeChildFromFamily:family"
            /\ ~includes(families[f].childrenUids, c)) => families' = families
      /\ (last'.op = "addChildToFamily" /\ last'.ok
            /\ includes(users[call.parentUid].childrenUids, c)) => users' = users
      /\ (last'.op = "removeChildFromFamily" /\ last'.ok
            /\ ~includes(users[call.parentUid].childrenUids, c)) => users' = users
      /\ (last'.op \in {"addChildToFamily", "removeChildFromFamily"}
            /\ ~Exists(families, f)) =>
           /\ ~last'.ok
           /\ users' = users
           /\ families' = families ]_vars

\* C23: createFamily(parentId) either completes, leaving a new Family with
\* parentUid = parentId, no children and filter level MODERATE and the
\* parent profile's familyId set to its id, or fails and leaves no new
\* Family record.
C23_CreateFamilyOrNothing ==
  [][ last'.op = "createFamily" =>
        IF last'.ok
        THEN /\ Exists(families', last'.fid)
             /\ families'[last'.fid] = NewFamily(last'.target, MODERATE)
             /\ users'[last'.target].familyId = last'.fid
        ELSE ~Exists(families', last'.fid) ]_vars

\* C24: fetchProxiedContent sends the request to the worker only when a
\* user is signed in, a profile was found and canAccessProxy holds of it;
\* otherwise it ends with an error and no request; and when the profile's
\* status is PENDING, REJECTED or SUSPENDED the error is a
\* ProxyAccessDeniedError whose reason is that status.
C24_ClientGate ==
  /\ client.pc # "done" => client.requests = 0
  /\ client.pc = "done" =>
       /\ client.requests = IF client.outcome.kind = "request" THEN 1 ELSE 0
       /\ client.outcome.kind \in {"request", "Error", "ProxyAccessDeniedError"}
       /\ client.profile = IF client.user = "" THEN {}
                           ELSE IF client.userProfile # {} THEN client.userProfile
                           ELSE client.profile \cap getUserProfile(client.user)
       /\ client.outcome.kind = "request" =>
            /\ client.user # ""
            /\ \E profile \in client.profile :
                 /\ profile.approvalStatus = APPROVED
                 /\ profile.role \in {SUPER_ADMIN, PARENT, CHILD}
       /\ \A profile \in client.profile :
            profile.approvalStatus \in {PENDING, REJECTED, SUSPENDED} =>
              /\ client.outcome.kind = "ProxyAccessDeniedError"
              /\ client.outcome.reason = profile.approvalStatus

\* a suspended child's fetch ended in an access-denied error after its
\* profile was read from the store, and no request was sent
C24_Witness ==
  /\ client.pc = "done"
  /\ client.user = ClientUid
  /\ client.userProfile = {}
  /\ client.profile = getUserProfile(ClientUid)
  /\ \E profile \in client.profile :
       profile.role = CHILD /\ profile.approvalStatus = SUSPENDED
  /\ client.outcome.kind = "ProxyAccessDeniedError"
  /\ client.outcome.reason = SUSPENDED
  /\ client.requests = 0


\* ------------------------------------------------------------------------
\* C25: approveChildRequest(parent, child) and suspendUser(actor, child,
\* reason) racing on one child are last-write-wins.  Whichever of the two
\* commits leaves the child's approvalStatus at its own value: APPROVED
\* after the approval, with the child in the parent's and in the Family's
\* childrenUids; SUSPENDED after the suspension, which leaves every
\* childrenUids, the child's role and its family links as the approval (or
\* anything earlier) wrote them.
C25_LastWriteWins ==
  [][\A c \in DOMAIN users' :
       (last' # last /\ last'.ok /\ last'.target = c) =>
         /\ last'.op = "approveChildRequest" =>
              /\ users'[c].approvalStatus = APPROVED
              /\ includes(users'[last'.by].childrenUids, c)
              /\ includes(families'[users'[last'.by].familyId].childrenUids, c)
         /\ last'.op = "suspendUser" =>
              /\ users'[c].approvalStatus = SUSPENDED
              /\ families' = families
              /\ DOMAIN users' = DOMAIN users
              /\ \A u \in DOMAIN users :
                   users'[u].childrenUids = users[u].childrenUids
              /\ users'[c].role = users[c].role
              /\ users'[c].parentUid = users[c].parentUid
              /\ users'[c].familyId = users[c].familyId]_vars

\* the approval has written the child's membership in full
ApprovalApplied(c) ==
  /\ Exists(users, c)
  /\ users[c].role = CHILD
  /\ users[c].parentUid \in DOMAIN users
  /\ users[c].approvedBy = users[c].parentUid
  /\ includes(users[users[c].parentUid].childrenUids, c)
  /\ users[c].familyId \in DOMAIN families
  /\ includes(families[users[c].familyId].childrenUids, c)

\* the suspension committed last: SUSPENDED, the approval's writes in place
C25_Witness ==
  \E c \in Children :
    /\ last.op = "suspendUser" /\ last.ok /\ last.target = c
    /\ ApprovalApplied(c)
    /\ users[c].approvalStatus = SUSPENDED

\* the approval committed last: APPROVED, the suspension's reason in place
C25_ApprovedLast ==
  \E c \in Children :
    /\ last.op = "approveChildRequest" /\ last.ok /\ last.target = c
    /\ ApprovalApplied(c)
    /\ users[c].approvalStatus = APPROVED
    /\ users[c].rejectedReason \in Reasons


\* ------------------------------------------------------------------------
\* C27: getFamilyChildren(familyId) returns exactly the profiles whose role
\* is CHILD and whose familyId is familyId, each as it is stored, whatever
\* the Family's childrenUids holds, and it changes no record.
Queried == query'.n # query.n

C27_ChildrenQuery ==
  [][Queried =>
       /\ DOMAIN query'.result \subseteq DOMAIN users
       /\ \A u \in DOMAIN users :
            u \in DOMAIN query'.result <=>
              (users[u].role = CHILD /\ users[u].familyId = query'.familyId)
       /\ \A u \in DOMAIN query'.result : query'.result[u] = users[u]
       /\ users' = users
       /\ families' = families]_vars

\* a CHILD of the family that the Family's list misses is returned
C27_Witness ==
  \E c \in Children :
    /\ query.familyId \in DOMAIN families
    /\ ~includes(families[query.familyId].childrenUids, c)
    /\ c \in DOMAIN query.result
    /\ query.result[c] = users[c]
    /\ users[c].role = CHILD

\* a uid the Family lists whose profile is no CHILD of it is not returned
C27_ListedNotReturned ==
  \E c \in Children :
    /\ query.familyId \in DOMAIN families
    /\ includes(families[query.familyId].childrenUids, c)
    /\ users[c].role # CHILD
    /\ query.result = <<>>


\* ------------------------------------------------------------------------
\* C28: the request the gateway sends to the target site is determined by
\* the target URL and the method of the incoming request alone.  Its only
\* headers are the fixed User-Agent and Accept: neither the Authorization
\* token nor X-Filter-Level, a cookie or any other incoming header is sent
\* on, so requests that differ only in their headers send the same request.
FixedHeaders ==
  ("User-Agent" :> "OpenFamilySafe/1.0")
  @@ ("Accept" :> "text/html,application/xhtml+xml,application/xml;q=0.9,*/*;q=0.8")

C28_OutboundFromUrlAndMethod ==
  gateway.fetches > 0 =>
    /\ gateway.outbound.url = gateway.request.url
    /\ gateway.outbound.method = gateway.request.method
    /\ gateway.outbound.headers = FixedHeaders
    /\ DOMAIN gateway.outbound.headers = {"User-Agent", "Accept"}
    /\ \A h \in DOMAIN gateway.request.headers \cup {"Authorization"} :
         h \notin DOMAIN gateway.outbound.headers

\* a request carrying a bearer token, a filter level and a cookie was sent on
C28_Witness ==
  /\ gateway.fetches = 1
  /\ gateway.request.authorization.present
  /\ "X-Filter-Level" \in DOMAIN gateway.request.headers
  /\ "Cookie" \in DOMAIN gateway.request.headers
  /\ gateway.outbound.url = gateway.request.url


\* ------------------------------------------------------------------------
\* C29: a uid is in the childrenUids of at most one Family and of at most
\* one parent profile, and both belong to the parent the child's own
\* parentUid names: approving or adding a child that is already a member of
\* another family does not leave it listed under two families.
FamiliesListing(c) ==
  {f \in DOMAIN families : includes(families[f].childrenUids, c)}

ParentsListing(c) ==
  {p \in DOMAIN users : includes(users[p].childrenUids, c)}

C29_ChildInOneFamily ==
  \A c \in Uids :
    /\ Cardinality(FamiliesListing(c)) <= 1
    /\ Cardinality(ParentsListing(c)) <= 1
    /\ \A f \in FamiliesListing(c) :
         Exists(users, c) /\ families[f].parentUid = users[c].parentUid
    /\ \A p \in ParentsListing(c) :
         Exists(users, c) /\ p = users[c].parentUid

\* the part of C29 about two families, at rest (no family call in flight)
C29_TwoFamilies ==
  \E c \in Children :
    /\ call = NoCall
    /\ Cardinality(FamiliesListing(c)) = 2


\* ------------------------------------------------------------------------
\* C30: the profile the auth context holds belongs to the signed-in user:
\* whenever user is null, userProfile is null, and whenever both are set,
\* userProfile.uid = user.uid, under every interleaving of auth-state
\* changes, snapshot callbacks and a refreshProfile whose profile read
\* returns after the auth state has changed.
C30_ProfileOfUser ==
  /\ auth.user = "" => auth.userProfile = {}
  /\ \A profile \in auth.userProfile : profile.uid = auth.user

\* signed out, holding the profile a late refreshProfile read returned
C30_ProfileWithoutUser ==
  /\ auth.pc = "ready"
  /\ auth.user = ""
  /\ auth.userProfile # {}

\* signed in as one user, holding the profile of the one before
C30_ProfileOfOtherUser ==
  /\ auth.user # ""
  /\ auth.refresh = ""
  /\ \E profile \in auth.userProfile : profile.uid # auth.user

=============================================================================
